---- MODULE Spec2Model ----
(***************************************************************************)
(* debug.h of wishbone-utils: six object-like macros naming the CSR        *)
(* addresses of the XADC temperature register and of the cpu_or_bridge     *)
(* debug block.                                                            *)
(*                                                                         *)
(* The model is a translation unit that includes the header.  The          *)
(* preprocessor reads the header one line at a time and enters every       *)
(* #define in its macro table; the header has no include guard, so it may  *)
(* be included again.  Between inclusions the unit expands the macros it   *)
(* has seen: to the address of a 32-bit bus read or write, or to the text  *)
(* of a regenerated header line.                                           *)
(*                                                                         *)
(* A replacement list is kept as the characters written in the header and  *)
(* is evaluated the way C evaluates a hexadecimal constant.  TLC's         *)
(* integers are 32-bit signed and every address here is above 2^31, so a   *)
(* value is the pair <<hi, lo>> standing for hi * 2^16 + lo, lo < 2^16.    *)
(***************************************************************************)
EXTENDS Integers, Sequences, FiniteSets, TLC

VARIABLES
    line,      \* the header line the preprocessor reads next; EndOfHeader when idle
    macros,    \* the macro table: name -> replacement list (characters)
    ndef,      \* name -> #define directives met for it in the current inclusion
    included,  \* the header has been read to its end at least once
    last       \* the unit's last use of a macro: a bus access or a rendering

vars == <<line, macros, ndef, included, last>>

\* Largest word the unit writes to a register.
MaxVal == 1

Values == 0..MaxVal

----------------------------------------------------------------------------
(* The header, line by line.                                               *)

Lit(s) == [kind |-> "define", name |-> s[1], body |-> s[2]]

Blank == [kind |-> "blank", name |-> "", body |-> <<>>]

Comment == [kind |-> "comment", name |-> "", body |-> <<>>]

\* the mutants of the header's lines, one slip of the register-map generator each
PacketCounterNextStride ==
    Lit(<<"CSR_CPU_OR_BRIDGE_DEBUG_PACKET_COUNTER",
          <<"0","x","e","0","0","0","6","0","1","0">>>>)

PacketCounterUpperCase ==
    Lit(<<"CSR_CPU_OR_BRIDGE_DEBUG_PACKET_COUNTER",
          <<"0","x","E","0","0","0","6","0","0","C">>>>)

SyncAtPacketCounter ==
    Lit(<<"CSR_CPU_OR_BRIDGE_DEBUG_SYNC",
          <<"0","x","e","0","0","0","6","0","0","c">>>>)

DataAtBase ==
    Lit(<<"CSR_CPU_OR_BRIDGE_DEBUG_DATA",
          <<"0","x","e","0","0","0","6","0","0","0">>>>)

DataHalfWord ==
    Lit(<<"CSR_CPU_OR_BRIDGE_DEBUG_DATA",
          <<"0","x","e","0","0","0","6","0","0","2">>>>)

CoreNamedBase ==
    Lit(<<"CSR_CPU_OR_BRIDGE_BASE",
          <<"0","x","e","0","0","0","6","0","0","4">>>>)

BaseAtTopOfMemory ==
    Lit(<<"CSR_CPU_OR_BRIDGE_BASE",
          <<"0","x","f","f","f","f","f","f","f","8">>>>)

TemperatureInsideBridge ==
    Lit(<<"CSR_XADC_TEMPERATURE_ADDR",
          <<"0","x","e","0","0","0","6","0","0","8">>>>)

CSR_XADC_TEMPERATURE_ADDR ==
    Lit(<<"CSR_XADC_TEMPERATURE_ADDR",
          <<"0","x","e","0","0","0","5","8","0","0">>>>)

CSR_CPU_OR_BRIDGE_BASE ==
    Lit(<<"CSR_CPU_OR_BRIDGE_BASE",
          <<"0","x","e","0","0","0","6","0","0","0">>>>)

CSR_CPU_OR_BRIDGE_DEBUG_CORE ==
    Lit(<<"CSR_CPU_OR_BRIDGE_DEBUG_CORE",
          <<"0","x","e","0","0","0","6","0","0","0">>>>)

CSR_CPU_OR_BRIDGE_DEBUG_DATA ==
    Lit(<<"CSR_CPU_OR_BRIDGE_DEBUG_DATA",
          <<"0","x","e","0","0","0","6","0","0","4">>>>)

CSR_CPU_OR_BRIDGE_DEBUG_SYNC ==
    Lit(<<"CSR_CPU_OR_BRIDGE_DEBUG_SYNC",
          <<"0","x","e","0","0","0","6","0","0","8">>>>)

CSR_CPU_OR_BRIDGE_DEBUG_PACKET_COUNTER ==
    Lit(<<"CSR_CPU_OR_BRIDGE_DEBUG_PACKET_COUNTER",
          <<"0","x","e","0","0","0","6","0","0","c">>>>)

Header ==
    << CSR_XADC_TEMPERATURE_ADDR,
       Blank,
       Comment,
       CSR_CPU_OR_BRIDGE_BASE,
       Blank,
       CSR_CPU_OR_BRIDGE_DEBUG_CORE,
       CSR_CPU_OR_BRIDGE_DEBUG_DATA,
       CSR_CPU_OR_BRIDGE_DEBUG_SYNC,
       CSR_CPU_OR_BRIDGE_DEBUG_PACKET_COUNTER >>

EndOfHeader == Len(Header) + 1

\* The names the unit may write in its source: those the header is documented
\* to provide.
XADC == "CSR_XADC_TEMPERATURE_ADDR"

BASE == "CSR_CPU_OR_BRIDGE_BASE"

DebugRegs ==
    << "CSR_CPU_OR_BRIDGE_DEBUG_CORE",
       "CSR_CPU_OR_BRIDGE_DEBUG_DATA",
       "CSR_CPU_OR_BRIDGE_DEBUG_SYNC",
       "CSR_CPU_OR_BRIDGE_DEBUG_PACKET_COUNTER" >>

DebugNames == {DebugRegs[i] : i \in 1..Len(DebugRegs)}

Names == {XADC, BASE} \cup DebugNames

\* Byte offsets a unit adds to the block's base to reach its registers.
Offsets == {0, 4, 8, 12}

----------------------------------------------------------------------------
(* Hexadecimal constants, as C reads them.                                 *)

LowerDigits ==
    <<"0","1","2","3","4","5","6","7","8","9","a","b","c","d","e","f">>

UpperDigits ==
    <<"0","1","2","3","4","5","6","7","8","9","A","B","C","D","E","F">>

IsHexDigit(c) == \E i \in 1..16 : LowerDigits[i] = c \/ UpperDigits[i] = c

DigitVal(c) ==
    (CHOOSE i \in 1..16 : LowerDigits[i] = c \/ UpperDigits[i] = c) - 1

IsHexLiteral(lit) ==
    /\ Len(lit) >= 3
    /\ lit[1] = "0"
    /\ lit[2] \in {"x", "X"}
    /\ \A i \in 3..Len(lit) : IsHexDigit(lit[i])

\* acc * 16 + d on a <<hi, lo>> pair; hi is left to grow past 16 bits, so a
\* constant wider than 32 bits shows as hi >= 2^16.
Shl4Add(acc, d) ==
    LET t == acc[2] * 16 + d
    IN  <<acc[1] * 16 + (t \div 65536), t % 65536>>

RECURSIVE HexAcc(_, _, _)
HexAcc(lit, i, acc) ==
    IF i > Len(lit) THEN acc
    ELSE HexAcc(lit, i + 1, Shl4Add(acc, DigitVal(lit[i])))

HexValue(lit) == HexAcc(lit, 3, <<0, 0>>)

\* The type C gives an unsuffixed hexadecimal constant, int being 32 bits:
\* the first of int, unsigned int and a wider type that holds the value.
LiteralType(lit) ==
    LET v == HexValue(lit)
    IN  IF v[1] < 32768 THEN "int"
        ELSE IF v[1] < 65536 THEN "unsigned int"
        ELSE "wider"

----------------------------------------------------------------------------
(* Address arithmetic on <<hi, lo>> pairs.                                 *)

\* v + k as a mathematical integer (hi unbounded), for 0 <= k < 2^16.
Sum(v, k) ==
    LET t == v[2] + k
    IN  <<v[1] + (t \div 65536), t % 65536>>

\* v + k in 32-bit unsigned arithmetic: the carry out of bit 31 is dropped.
AddU32(v, k) ==
    LET s == Sum(v, k)
    IN  <<s[1] % 65536, s[2]>>

Less(a, b) == a[1] < b[1] \/ (a[1] = b[1] /\ a[2] < b[2])

Aligned4(a) == a[2] % 4 = 0

\* The bytes a 32-bit access at a touches.
Word(a) == {AddU32(a, i) : i \in 0..3}

Overlap(a, b) == Word(a) \cap Word(b) # {}

\* The text a register-map generator writes for a value: 0x and eight
\* lowercase digits.
Render(v) ==
    LET h == v[1] % 65536
        l == v[2]
        D(n) == LowerDigits[n + 1]
    IN  << "0", "x",
           D(h \div 4096), D((h \div 256) % 16), D((h \div 16) % 16), D(h % 16),
           D(l \div 4096), D((l \div 256) % 16), D((l \div 16) % 16), D(l % 16) >>

----------------------------------------------------------------------------
(* The preprocessor.                                                       *)

NoMacros == [n \in {} |-> <<>>]

Defined(n) == n \in DOMAIN macros

\* #define name body: the name is entered, or its replacement list replaced.
Define(m, name, body) ==
    [k \in DOMAIN m \cup {name} |-> IF k = name THEN body ELSE m[k]]

Count(c, name) ==
    [k \in DOMAIN c \cup {name} |->
        IF k = name THEN (IF name \in DOMAIN c THEN c[name] + 1 ELSE 1)
        ELSE c[k]]

\* The value a defined name expands to.
Addr(n) == HexValue(macros[n])

NoUse == [op |-> "none", name |-> "", off |-> 0, addr |-> <<0, 0>>,
          data |-> 0, hit |-> {}, text |-> <<>>]

Init ==
    /\ line = 1
    /\ macros = NoMacros
    /\ ndef = NoMacros
    /\ included = FALSE
    /\ last = NoUse

\* The preprocessor reads one line of the header.
ProcessLine ==
    /\ line < EndOfHeader
    /\ LET l == Header[line]
       IN  IF l.kind = "define"
           THEN /\ macros' = Define(macros, l.name, l.body)
                /\ ndef' = Count(ndef, l.name)
           ELSE UNCHANGED <<macros, ndef>>
    /\ line' = line + 1
    /\ included' = (included \/ line' = EndOfHeader)
    /\ UNCHANGED last

\* Nothing in the header guards it against a second #include.
IncludeAgain ==
    /\ line = EndOfHeader
    /\ line' = 1
    /\ ndef' = NoMacros
    /\ UNCHANGED <<macros, included, last>>

\* The names whose register a 32-bit access at a touches.
Hit(a) == {m \in DOMAIN macros : Overlap(Addr(m), a)}

Target(n, off) == AddU32(Addr(n), off)

\* A 32-bit bus read at the address a name (plus an offset, for the base)
\* expands to.
Read(n, off) ==
    /\ Defined(n)
    /\ last' = [op |-> "read", name |-> n, off |-> off,
                addr |-> Target(n, off), data |-> 0,
                hit |-> Hit(Target(n, off)), text |-> <<>>]
    /\ UNCHANGED <<line, macros, ndef, included>>

\* A 32-bit bus write of v at that address.
Write(n, off, v) ==
    /\ Defined(n)
    /\ last' = [op |-> "write", name |-> n, off |-> off,
                addr |-> Target(n, off), data |-> v,
                hit |-> Hit(Target(n, off)), text |-> <<>>]
    /\ UNCHANGED <<line, macros, ndef, included>>

\* The header line of a name is written out again from the name's value.
Regenerate(n) ==
    /\ Defined(n)
    /\ last' = [op |-> "render", name |-> n, off |-> 0, addr |-> Addr(n),
                data |-> 0, hit |-> {}, text |-> Render(Addr(n))]
    /\ UNCHANGED <<line, macros, ndef, included>>

Next ==
    \/ ProcessLine
    \/ IncludeAgain
    \/ \E n \in Names : Read(n, 0)
    \/ \E off \in Offsets : Read(BASE, off)
    \/ \E n \in Names, v \in Values : Write(n, 0, v)
    \/ \E off \in Offsets, v \in Values : Write(BASE, off, v)
    \/ \E n \in Names : Regenerate(n)

Spec == Init /\ [][Next]_vars

----------------------------------------------------------------------------
(* The claims.                                                             *)

\* Four hexadecimal digits as a number: Hex4(14, 0, 0, 0) is 0xe000.
Hex4(a, b, c, d) == ((a * 16 + b) * 16 + c) * 16 + d

CORE == DebugRegs[1]

DATA == DebugRegs[2]

SYNC == DebugRegs[3]

PACKET_COUNTER == DebugRegs[4]

AllDefined == Names \subseteq DOMAIN macros

\* The sixteen bytes from the block's base on.
Block == {Sum(Addr(BASE), i) : i \in 0..15}

IsAccess == last.op \in {"read", "write"}

\* C1: when the header has been read to its end, each of the six names has
\* met exactly one #define, no other name is defined, and each name's
\* replacement list is a hexadecimal constant whose value is the one the
\* interface table lists.
C1_ValuesAsListed ==
    line = EndOfHeader =>
        /\ DOMAIN macros = Names
        /\ DOMAIN ndef = Names
        /\ \A n \in Names : ndef[n] = 1 /\ IsHexLiteral(macros[n])
        /\ Addr(XADC) = <<Hex4(14, 0, 0, 0), Hex4(5, 8, 0, 0)>>
        /\ Addr(BASE) = <<Hex4(14, 0, 0, 0), Hex4(6, 0, 0, 0)>>
        /\ Addr(CORE) = <<Hex4(14, 0, 0, 0), Hex4(6, 0, 0, 0)>>
        /\ Addr(DATA) = <<Hex4(14, 0, 0, 0), Hex4(6, 0, 0, 4)>>
        /\ Addr(SYNC) = <<Hex4(14, 0, 0, 0), Hex4(6, 0, 0, 8)>>
        /\ Addr(PACKET_COUNTER) = <<Hex4(14, 0, 0, 0), Hex4(6, 0, 0, 12)>>

C1_Witness ==
    /\ line = EndOfHeader
    /\ AllDefined
    /\ ndef = [n \in Names |-> 1]
    /\ Addr(PACKET_COUNTER) = <<57344, 24588>>

\* C2: once the header is included, DEBUG_CORE equals the base, each debug
\* register is strictly above its predecessor by exactly 4, and the i-th
\* register sits at base + 4 * (i - 1).
C2_BridgeStride ==
    included =>
        /\ AllDefined
        /\ Addr(CORE) = Addr(BASE)
        /\ \A i \in 1..(Len(DebugRegs) - 1) :
              /\ Less(Addr(DebugRegs[i]), Addr(DebugRegs[i + 1]))
              /\ Addr(DebugRegs[i + 1]) = Sum(Addr(DebugRegs[i]), 4)
        /\ \A i \in 1..Len(DebugRegs) :
              Addr(DebugRegs[i]) = Sum(Addr(BASE), 4 * (i - 1))

C2_Witness ==
    /\ included
    /\ last.op = "read"
    /\ last.name = BASE
    /\ last.off = 12
    /\ last.hit = {PACKET_COUNTER}

\* C3, as claimed: once the header is included, no two of the six names have
\* the same value.
C3_AllSixDistinct ==
    included =>
        /\ AllDefined
        /\ \A a, b \in Names : a # b => Addr(a) # Addr(b)

\* C3, amended: once the header is included, two different names have the
\* same value exactly when they are CSR_CPU_OR_BRIDGE_BASE and
\* CSR_CPU_OR_BRIDGE_DEBUG_CORE; the six names take five values.
C3_DistinctButBaseAndCore ==
    included =>
        /\ AllDefined
        /\ \A a, b \in Names :
              a # b => ((Addr(a) = Addr(b)) <=> ({a, b} = {BASE, CORE}))
        /\ Cardinality({Addr(n) : n \in Names}) = Cardinality(Names) - 1

C3_Witness ==
    /\ included
    /\ last.op = "write"
    /\ last.name = CORE
    /\ last.hit = {BASE, CORE}

\* C4: from the first complete inclusion on, no step (a read, a write, a
\* rendering, another inclusion of the header) changes the macro table, and
\* the table binds exactly the six names.
C4_BindingsImmutable ==
    [][included => (DOMAIN macros = Names /\ macros' = macros)]_vars

C4_Witness ==
    /\ included
    /\ line > 1
    /\ line < EndOfHeader
    /\ last.op = "write"
    /\ last.data = 1
    /\ DOMAIN macros = Names

\* C5: once the header is included, rendering a name's value as 0x and eight
\* lowercase digits gives the literal written in the header, and reading
\* that text back gives the value; a rendering the unit made shows that text.
C5_RoundTrip ==
    /\ included =>
          /\ AllDefined
          /\ \A n \in Names :
                /\ Render(Addr(n)) = macros[n]
                /\ IsHexLiteral(Render(Addr(n)))
                /\ HexValue(Render(Addr(n))) = Addr(n)
    /\ (included /\ last.op = "render") =>
          /\ Defined(last.name)
          /\ last.text = macros[last.name]
          /\ HexValue(last.text) = last.addr

C5_Witness ==
    /\ included
    /\ last.op = "render"
    /\ last.name = PACKET_COUNTER
    /\ last.text = <<"0", "x", "e", "0", "0", "0", "6", "0", "0", "c">>

\* C6: once the header is included, the names other than the temperature
\* register and the base are exactly four registers; the base and the four
\* are multiples of 4; the four 4-byte ranges are pairwise disjoint and
\* their union is the sixteen bytes from the base on; an access through a
\* debug register's name touches no other debug register.
C6_BridgeBlock ==
    included =>
        /\ AllDefined
        /\ DOMAIN macros \ {XADC, BASE} = DebugNames
        /\ Cardinality(DOMAIN macros \ {XADC, BASE}) = 4
        /\ \A n \in DebugNames \cup {BASE} : Aligned4(Addr(n))
        /\ \A a, b \in DebugNames :
              a # b => Word(Addr(a)) \cap Word(Addr(b)) = {}
        /\ UNION {Word(Addr(n)) : n \in DebugNames} = Block
        /\ Cardinality(Block) = 16
        /\ (IsAccess /\ last.name \in DebugNames) =>
              last.hit \cap DebugNames = {last.name}

C6_Witness ==
    /\ included
    /\ last.op = "write"
    /\ last.name = DATA
    /\ last.hit = {DATA}

\* C7: once the header is included, every value is below 2^32 and at least
\* 2^31 (so C types each constant unsigned int), and for each of the four
\* offsets base + offset in 32-bit arithmetic is the unbounded sum and the
\* value of the register at that offset; an access made through the base and
\* an offset went to that address.
C7_NoWrap ==
    included =>
        /\ AllDefined
        /\ \A n \in Names :
              /\ Addr(n)[1] >= 32768
              /\ Addr(n)[1] < 65536
              /\ Addr(n)[2] \in 0..65535
              /\ LiteralType(macros[n]) = "unsigned int"
        /\ Offsets = {4 * (i - 1) : i \in 1..Len(DebugRegs)}
        /\ \A i \in 1..Len(DebugRegs) :
              /\ AddU32(Addr(BASE), 4 * (i - 1)) = Sum(Addr(BASE), 4 * (i - 1))
              /\ AddU32(Addr(BASE), 4 * (i - 1)) = Addr(DebugRegs[i])
        /\ (IsAccess /\ last.name = BASE) =>
              last.addr = Sum(Addr(BASE), last.off)

C7_Witness ==
    /\ included
    /\ last.op = "write"
    /\ last.name = BASE
    /\ last.off = 12
    /\ last.addr = <<57344, 24588>>

\* C8: once the header is included, the temperature register is a multiple
\* of 4 and strictly below the base, its four bytes are 0xe0005800 to
\* 0xe0005803 and none of them is in the block, and no access through the
\* base or a debug register touches the temperature register.
C8_TemperatureApart ==
    included =>
        /\ AllDefined
        /\ Aligned4(Addr(XADC))
        /\ Less(Addr(XADC), Addr(BASE))
        /\ Word(Addr(XADC)) =
              {<<Hex4(14, 0, 0, 0), Hex4(5, 8, 0, 0) + i>> : i \in 0..3}
        /\ Word(Addr(XADC)) \cap Block = {}
        /\ (IsAccess /\ last.name \in DebugNames \cup {BASE}) =>
              XADC \notin last.hit

C8_Witness ==
    /\ included
    /\ last.op = "write"
    /\ last.name = SYNC
    /\ last.off = 0
    /\ last.hit = {SYNC}
    /\ XADC \notin last.hit

====
